---- MODULE Spec2Model ----
(***************************************************************************)
(* Model of the msh lexer (src/lexer.rs): a pull-based tokenizer with a    *)
(* one-character pushback cursor and a one-kind lookahead slot.            *)
(*                                                                         *)
(* Option<T> values are modelled as sequences: None is <<>> and Some(x)    *)
(* is <<x>>.  Characters are one-character strings, texts are sequences    *)
(* of characters.  The lexer struct is a record with the source's field    *)
(* names; two more fields, fault and got, observe the run: fault records   *)
(* the first panic (a failed assert!, an unsigned subtraction below zero)  *)
(* or misuse of push_char, got is the character next_char returned last.   *)
(*                                                                         *)
(* The environment store (src/environment.rs) is modelled beside it: the   *)
(* HashMap is a function from the names that are set to their Var, and     *)
(* EnvSpec runs any sequence of assign and export calls on it.             *)
(***************************************************************************)
EXTENDS Integers, Sequences, FiniteSets, TLC

\* Longest input text the driver lexes.
MaxLen == 4
\* How many times the driver keeps pulling after it has seen None.
MaxNones == 2
\* Longest value a variable of the environment store holds.
MaxValLen == 2

\* The characters of an input text: a word character, two whitespace
\* characters, the two line terminators and the two braces.
Chars == {"a", " ", "\t", "\n", ";", "{", "}"}

Texts == UNION {[1..n -> Chars] : n \in 0..MaxLen}

None == <<>>
Some(x) == <<x>>

\* enum Kind
Word(buf) == [k |-> "Word", text |-> buf]
LeftBrace == [k |-> "LeftBrace"]
RightBrace == [k |-> "RightBrace"]
Semi == [k |-> "Semi"]

\* struct Token
Token(kind, line) == [kind |-> kind, line |-> line]

\* Only the newline ends a line.
is_line_terminator_newline_only(c) == c = "\n"

is_line_terminator(c) == c = "\n" \/ c = ";"

\* Only the space is whitespace.
is_whitespace_space_only(c) == c = " "

\* char::is_whitespace over Chars
is_whitespace(c) == c \in {" ", "\t", "\n"}

\* Kind::fmt, the text chosen for each kind.
KindText(kind) ==
    IF kind.k = "Word" THEN kind.text
    ELSE IF kind = LeftBrace THEN <<"{">>
    ELSE IF kind = RightBrace THEN <<"}">>
    ELSE <<";">>

\* Lexer::new
new(text) ==
    [src |-> text, line |-> 1, peek |-> None, next |-> None, last |-> None,
     fault |-> "ok", got |-> None]

\* The first fault of a run is kept.
Fault(st, cond, what) ==
    IF st.fault = "ok" /\ cond THEN what ELSE st.fault

\* Lexer::emit: the new lexer state and the value returned.
emit(st, kind, line) ==
    [st |-> [st EXCEPT !.last = Some(kind)],
     ret |-> Some(Token(kind, IF line = None THEN st.line ELSE line[1]))]

\* next_char without the line count.
next_char_no_count(st) ==
    LET next == IF st.peek # None THEN st.peek
                ELSE IF st.src # <<>> THEN Some(Head(st.src))
                ELSE None
        rest == IF st.peek # None \/ st.src = <<>> THEN st.src ELSE Tail(st.src)
    IN  [st |-> [st EXCEPT !.peek = None, !.src = rest, !.got = next],
         c |-> next]

\* next_char that counts a newline only when it comes from src.
next_char_count_src_only(st) ==
    LET next == IF st.peek # None THEN st.peek
                ELSE IF st.src # <<>> THEN Some(Head(st.src))
                ELSE None
        rest == IF st.peek # None \/ st.src = <<>> THEN st.src ELSE Tail(st.src)
    IN  [st |-> [st EXCEPT !.peek = None,
                           !.src = rest,
                           !.line = IF st.peek = None /\ next = Some("\n")
                                    THEN @ + 1 ELSE @,
                           !.got = next],
         c |-> next]

\* Lexer::next_char: the new lexer state and the character returned.
next_char(st) ==
    LET next == IF st.peek # None THEN st.peek
                ELSE IF st.src # <<>> THEN Some(Head(st.src))
                ELSE None
        rest == IF st.peek # None \/ st.src = <<>> THEN st.src ELSE Tail(st.src)
    IN  [st |-> [st EXCEPT !.peek = None,
                           !.src = rest,
                           !.line = IF next = Some("\n") THEN @ + 1 ELSE @,
                           !.got = next],
         c |-> next]

\* Lexer::push_char.  assert!(self.peek.is_none()) panics when the slot is
\* taken; line -= 1 at line 0 panics in a debug build and wraps in a release
\* build; both are recorded in fault, as is a character other than the one
\* next_char returned last.
push_char(st, c) ==
    [st EXCEPT !.fault = IF st.fault # "ok" THEN st.fault
                         ELSE IF st.peek # None THEN "assert"
                         ELSE IF c = "\n" /\ st.line = 0 THEN "underflow"
                         ELSE IF st.got # Some(c) THEN "misuse"
                         ELSE "ok",
               !.line = IF c = "\n" /\ @ > 0 THEN @ - 1 ELSE @,
               !.peek = Some(c),
               !.got = None]

\* The loop as an if: at most one more character is read.
consume_loop_once(st) ==
    LET r == next_char(st)
    IN  IF r.c = None THEN r.st
        ELSE IF ~is_line_terminator(r.c[1]) THEN push_char(r.st, r.c[1])
        ELSE r.st

\* Lexer::consume_line_terminators, the while loop.
RECURSIVE consume_loop(_)
consume_loop(st) ==
    LET r == next_char(st)
    IN  IF r.c = None THEN r.st
        ELSE IF ~is_line_terminator(r.c[1]) THEN push_char(r.st, r.c[1])
        ELSE consume_loop(r.st)

\* Lexer::consume_line_terminators: the new lexer state and the line returned.
consume_line_terminators(st) ==
    [st |-> consume_loop(st), line |-> st.line]

\* The slot is read and not emptied.
next_lookahead_keep(st) ==
    emit(st, st.next[1], None)

\* Lexer::next, the lookahead slot: self.next.take() and emit.
next_lookahead(st) ==
    emit([st EXCEPT !.next = None], st.next[1], None)

\* LeftBrace tagged with the line reached after the run.
next_left_brace_line_after(st) ==
    LET t == consume_line_terminators(st)
    IN  emit(t.st, LeftBrace, None)

\* LeftBrace emitted without taking the terminators after it.
next_left_brace_no_run(st) ==
    emit(st, LeftBrace, None)

\* Lexer::next, '{' read with an empty buffer.
next_left_brace(st) ==
    LET t == consume_line_terminators(st)
    IN  emit(t.st, LeftBrace, Some(t.line))

\* The closing brace is pushed back to be read again after the Semi, in
\* place of the lookahead slot.
next_right_brace_pushback(st) ==
    IF st.last # Some(Semi)
    THEN emit(push_char(st, "}"), Semi, None)
    ELSE emit(st, RightBrace, None)

\* A closing brace emitted directly, whatever the last kind was.
next_right_brace_direct(st) ==
    emit(st, RightBrace, None)

\* Lexer::next, '}' read with an empty buffer.
next_right_brace(st) ==
    IF st.last # Some(Semi)
    THEN emit([st EXCEPT !.next = Some(RightBrace)], Semi, None)
    ELSE emit(st, RightBrace, None)

\* Lexer::next, the Semi of a terminator run: Some(line - 1), an unsigned
\* subtraction.
emit_run_semi(st, line) ==
    emit([st EXCEPT !.fault = Fault(st, line = 0, "underflow")],
         Semi, Some(IF line > 0 THEN line - 1 ELSE 0))

\* Lexer::next, after the while loop.
next_tail(st, buf) ==
    IF buf = <<>>
    THEN IF st.last = Some(Semi)
         THEN [st |-> st, ret |-> None]
         ELSE emit(st, Semi, None)
    ELSE emit(st, Word(buf), None)

RECURSIVE next(_)
RECURSIVE next_loop(_, _)

\* A leading terminator run emits Semi like any other run.
next_terminator_no_suppress(st, c, buf) ==
    IF buf = <<>>
    THEN LET t == consume_line_terminators(st)
         IN  emit_run_semi(t.st, t.line)
    ELSE next_tail(push_char(st, c), buf)

\* A leading terminator run ends the pull with None.
next_terminator_none(st, c, buf) ==
    IF buf = <<>>
    THEN LET t == consume_line_terminators(st)
         IN  IF t.st.last = None
             THEN [st |-> t.st, ret |-> None]
             ELSE emit_run_semi(t.st, t.line)
    ELSE next_tail(push_char(st, c), buf)

\* Lexer::next, a line terminator c read: st is the state after reading it.
next_terminator(st, c, buf) ==
    IF buf = <<>>
    THEN LET t == consume_line_terminators(st)
         IN  IF t.st.last = None
             THEN next(t.st)
             ELSE emit_run_semi(t.st, t.line)
    ELSE next_tail(push_char(st, c), buf)

\* Lexer::next, a whitespace character read that is no line terminator.
next_whitespace(st, buf) ==
    IF buf = <<>> THEN next_loop(st, buf) ELSE next_tail(st, buf)

\* Lexer::next, the while loop over next_char with the word buffer buf.
next_loop(st, buf) ==
    LET r == next_char(st)
    IN  IF r.c = None THEN next_tail(r.st, buf)
        ELSE LET c == r.c[1]
             IN  IF buf = <<>> /\ c = "{" THEN next_left_brace(r.st)
                 ELSE IF buf = <<>> /\ c = "}" THEN next_right_brace(r.st)
                 ELSE IF is_line_terminator(c) THEN next_terminator(r.st, c, buf)
                 ELSE IF is_whitespace(c) THEN next_whitespace(r.st, buf)
                 ELSE next_loop(r.st, Append(buf, c))

\* Lexer::next (Iterator::next): the new lexer state and the value returned.
next(st) ==
    IF st.next # None THEN next_lookahead(st) ELSE next_loop(st, <<>>)

\* Lexer::new(text).collect(): every token up to the first None.
RECURSIVE collect(_)
collect(st) ==
    LET r == next(st)
    IN  IF r.ret = None THEN <<>> ELSE <<r.ret[1]>> \o collect(r.st)

Lex(text) == collect(new(text))

----------------------------------------------------------------------------
\* The environment store.

\* The variable names and the characters of their values.
Names == {"A", "B"}
ValChars == {"x", "y"}
Values == UNION {[1..n -> ValChars] : n \in 0..MaxValLen}

\* Var::new
Var(value, is_exported) == [value |-> value, is_exported |-> is_exported]

\* The value expressions of an assignment or export: a literal, the value
\* of a variable followed by one more character (as in PATH=$PATH:/x), and
\* an expression whose expansion fails.
Lit(v) == [e |-> "lit", value |-> v]
Cat(n, c) == [e |-> "cat", name |-> n, char |-> c]
Bad == [e |-> "bad"]
Exprs == {Lit(v) : v \in Values} \cup {Cat(n, c) : n \in Names, c \in ValChars}
            \cup {Bad}

\* Environment::get
get(values, name) ==
    IF name \in DOMAIN values THEN Some(values[name].value) ELSE None

\* Value::expand against the store: Ok(value) or Err.
expand(expr, values) ==
    IF expr.e = "lit" THEN [ok |-> TRUE, value |-> expr.value]
    ELSE IF expr.e = "cat"
    THEN [ok |-> TRUE,
          value |-> (IF get(values, expr.name) = None THEN <<>>
                     ELSE get(values, expr.name)[1]) \o <<expr.char>>]
    ELSE [ok |-> FALSE, value |-> <<>>]

\* HashMap::insert
insert(values, name, var) ==
    [n \in DOMAIN values \cup {name} |-> IF n = name THEN var ELSE values[n]]

\* assign that always inserts a fresh, unexported Var.
assign_insert(values, name, expr) ==
    LET value == expand(expr, values)
    IN  IF ~value.ok THEN [values |-> values, result |-> "err"]
        ELSE [values |-> insert(values, name, Var(value.value, FALSE)),
              result |-> "ok"]

\* Environment::assign: the new store and the Result.
assign(values, name, expr) ==
    LET value == expand(expr, values)
    IN  IF ~value.ok THEN [values |-> values, result |-> "err"]
        ELSE IF name \in DOMAIN values
        THEN [values |-> [values EXCEPT ![name].value = value.value],
              result |-> "ok"]
        ELSE [values |-> insert(values, name, Var(value.value, FALSE)),
              result |-> "ok"]

\* export that marks the name exported before it expands the value.
export_mark_first(values, name, value) ==
    LET marked == IF name \in DOMAIN values
                  THEN [values EXCEPT ![name].is_exported = TRUE]
                  ELSE insert(values, name, Var(<<>>, TRUE))
    IN  IF value = None THEN [values |-> marked, result |-> "ok"]
        ELSE LET v == expand(value[1], values)
             IN  IF ~v.ok THEN [values |-> marked, result |-> "err"]
                 ELSE [values |-> insert(values, name, Var(v.value, TRUE)),
                       result |-> "ok"]

\* Environment::export: the new store and the Result; value is None or
\* Some(expr).
export(values, name, value) ==
    IF value # None
    THEN LET v == expand(value[1], values)
         IN  IF ~v.ok THEN [values |-> values, result |-> "err"]
             ELSE [values |-> insert(values, name, Var(v.value, TRUE)),
                   result |-> "ok"]
    ELSE IF name \in DOMAIN values
    THEN [values |-> [values EXCEPT ![name].is_exported = TRUE],
          result |-> "ok"]
    ELSE [values |-> insert(values, name, Var(<<>>, TRUE)), result |-> "ok"]

\* The orders in which HashMap::iter can yield the names: every sequence
\* that holds each name of the store once.
Orders(values) ==
    {o \in [1..Cardinality(DOMAIN values) -> DOMAIN values] :
        \A i, j \in DOMAIN o : i # j => o[i] # o[j]}

\* iter_exported without the filter.
iter_exported_all(values, order) ==
    [i \in 1..Len(order) |-> <<order[i], values[order[i]].value>>]

\* Environment::iter_exported, for the order in which the map iterates.
iter_exported(values, order) ==
    LET exported(n) == values[n].is_exported
        names == SelectSeq(order, exported)
    IN  [i \in 1..Len(names) |-> <<names[i], values[names[i]].value>>]

\* Environment::new over any inherited process environment.
Inherited ==
    UNION {[S -> {Var(v, TRUE) : v \in Values}] : S \in SUBSET Names}

NoCall == [fn |-> "none", name |-> "", value |-> None, result |-> "ok"]

VARIABLES
    input,      \* the text the lexer was constructed from
    lexer,      \* the Lexer struct
    ret,        \* what the last call of next returned: None or Some(token)
    out,        \* the tokens returned so far, in order
    nones,      \* how many calls have returned None
    values,     \* Environment.values
    call        \* the last call on the store: its function, arguments, Result

vars == <<input, lexer, ret, out, nones, values, call>>

\* Lexer::new(src) for any text src.
Init ==
    /\ input \in Texts
    /\ lexer = new(input)
    /\ ret = None
    /\ out = <<>>
    /\ nones = 0
    /\ values = <<>>
    /\ call = NoCall

\* The driver calls next once.  A panic ends the run.
Pull ==
    /\ lexer.fault = "ok"
    /\ nones < MaxNones
    /\ LET r == next(lexer)
       IN  /\ lexer' = r.st
           /\ ret' = r.ret
           /\ out' = IF r.ret = None THEN out ELSE Append(out, r.ret[1])
           /\ nones' = IF r.ret = None THEN nones + 1 ELSE nones
    /\ UNCHANGED <<input, values, call>>

Next == Pull

Spec == Init /\ [][Next]_vars

\* Environment::new(); no lexer runs.
EnvInit ==
    /\ values \in Inherited
    /\ call = NoCall
    /\ input = <<>>
    /\ lexer = new(input)
    /\ ret = None
    /\ out = <<>>
    /\ nones = 0

\* The values an expansion may produce are bounded by MaxValLen.
Fits(expr) ==
    Len(expand(expr, values).value) <= MaxValLen

\* A call of Environment::assign.
Assign ==
    \E name \in Names, expr \in Exprs :
        /\ Fits(expr)
        /\ LET r == assign(values, name, expr)
           IN  /\ values' = r.values
               /\ call' = [fn |-> "assign", name |-> name,
                           value |-> Some(expr), result |-> r.result]
        /\ UNCHANGED <<input, lexer, ret, out, nones>>

\* A call of Environment::export, with or without a value.
Export ==
    \E name \in Names, value \in {None} \cup {Some(e) : e \in Exprs} :
        /\ value # None => Fits(value[1])
        /\ LET r == export(values, name, value)
           IN  /\ values' = r.values
               /\ call' = [fn |-> "export", name |-> name,
                           value |-> value, result |-> r.result]
        /\ UNCHANGED <<input, lexer, ret, out, nones>>

EnvNext == Assign \/ Export

EnvSpec == EnvInit /\ [][EnvNext]_vars

----------------------------------------------------------------------------
\* Properties of the token stream.

IsSemi(i) == out[i].kind = Semi
IsRightBrace(i) == out[i].kind = RightBrace
IsWord(i) == out[i].kind.k = "Word"

\* C1: the tokens returned so far never hold two Semi tokens in adjacent
\* positions, whatever the input text.
NoAdjacentSemis ==
    \A i \in 1..(Len(out) - 1) : ~(IsSemi(i) /\ IsSemi(i + 1))

\* C2: the first token next returns is never Semi, whatever the input text.
FirstTokenNotSemi ==
    out # <<>> => ~IsSemi(1)

\* C3: once next has returned None after at least one token, the last token
\* is Semi and the token before it, if any, is not Semi.
EndsWithExactlyOneSemi ==
    (nones > 0 /\ out # <<>>) =>
        /\ IsSemi(Len(out))
        /\ Len(out) > 1 => ~IsSemi(Len(out) - 1)

\* C4: every RightBrace token of the stream is immediately preceded by a
\* Semi token; a RightBrace waiting in the lookahead slot was put there by
\* the pull that has just returned Semi, and the pull that empties the slot
\* returns that RightBrace.
RightBracePrecededBySemi ==
    /\ \A i \in 1..Len(out) : IsRightBrace(i) => (i > 1 /\ IsSemi(i - 1))
    /\ lexer.next = Some(RightBrace) => (out # <<>> /\ IsSemi(Len(out)))

\* C4 witness: a stream with a RightBrace that came out of the lookahead
\* slot (its Semi was synthesized) and a later one emitted directly after an
\* explicit terminator, as for the text "};}".
RightBraceBothWays ==
    /\ Len(out) >= 4
    /\ input[1] = "}" /\ IsSemi(1) /\ IsRightBrace(2)
    /\ IsSemi(3) /\ IsRightBrace(4)
    /\ lexer.last = Some(RightBrace) /\ lexer.next = None

\* C5: every token returned has line >= 1.
LinesAtLeastOne ==
    \A i \in 1..Len(out) : out[i].line >= 1

\* The first character of a text that is neither whitespace nor a line
\* terminator, if any.
FirstSignificant(text) ==
    LET at == {i \in 1..Len(text) : text[i] \notin {" ", "\t", "\n", ";"}}
    IN  IF at = {} THEN None
        ELSE Some(text[CHOOSE i \in at : \A j \in at : i <= j])

\* C2, amended: the first token is Semi exactly when the first character of
\* the input that is neither whitespace nor a line terminator is '}' or
\* there is no such character; a leading run of terminators before a word
\* or '{' yields no Semi.
FirstTokenSemiOnlyWithoutStatement ==
    out # <<>> =>
        (IsSemi(1) <=> FirstSignificant(input) \in {None, Some("}")})

\* C2 witness: a text that starts with a line terminator and whose first
\* token is a Word.
LeadingTerminatorSuppressed ==
    /\ Len(input) >= 2 /\ input[1] \in {"\n", ";"}
    /\ out # <<>> /\ IsWord(1)

\* C6: no pull panics or misuses the cursor: the assertion of push_char
\* holds, no subtraction on the line counter goes below zero, and push_char
\* is given the character next_char returned last.
NoFault ==
    lexer.fault = "ok"

\* C6 witness: a Semi of a terminator run has been emitted (line - 1) and a
\* newline is held in the pushback slot (line -= 1), as for "a\na\n".
PushedBackNewlineAfterRunSemi ==
    /\ Len(out) = 3 /\ IsWord(1) /\ IsSemi(2) /\ IsWord(3)
    /\ lexer.peek = Some("\n")
    /\ lexer.fault = "ok"

\* C7: the text of every Word token is non-empty, holds no whitespace, no
\* newline and no ';', and does not begin with a brace.
WordsWellFormed ==
    \A i \in 1..Len(out) :
        IsWord(i) =>
            LET text == out[i].kind.text
            IN  /\ text # <<>>
                /\ \A j \in 1..Len(text) : text[j] \notin {" ", "\t", "\n", ";"}
                /\ text[1] \notin {"{", "}"}

\* C7 witness: a Word with a brace at a later position.
WordWithInnerBrace ==
    \E i \in 1..Len(out) :
        /\ IsWord(i)
        /\ \E j \in 2..Len(out[i].kind.text) : out[i].kind.text[j] \in {"{", "}"}

\* Characters still to be read: the pushback slot and the rest of the text.
Remaining(st) == Len(st.peek) + Len(st.src)

\* What a lexer state can still give rise to: three per character to read,
\* two for a kind in the lookahead slot, one for the final Semi still owed.
Measure(st) ==
    3 * Remaining(st) + 2 * Len(st.next)
        + (IF st.last = Some(Semi) THEN 0 ELSE 1)

\* C8: a pull that does not empty the lookahead slot reads at least one
\* character more than it pushes back, or finds nothing left to read; every
\* pull that returns a token lowers Measure, which is never negative, so
\* only finitely many pulls return a token before None; and the stream has
\* at most two tokens per character of the text and one more.
StreamIsFinite ==
    [][/\ lexer.next = None =>
            (Remaining(lexer') < Remaining(lexer) \/ Remaining(lexer) = 0)
       /\ ret' # None => Measure(lexer') < Measure(lexer)
       /\ Len(out') <= 2 * Len(input) + 1]_vars

\* C8 witness: the longest stream of a text, ended: "}}" gives five tokens.
LongestStreamEnded ==
    /\ nones > 0
    /\ Len(input) >= 2
    /\ Len(out) = 2 * Len(input) + 1

\* C9: once next has returned None, every later call returns None, and at
\* that point the lookahead slot, the pushback slot and the text are empty.
EndIsFinal ==
    nones > 0 =>
        /\ ret = None
        /\ lexer.next = None
        /\ lexer.peek = None
        /\ lexer.src = <<>>

\* C9 witness: next has returned None twice after a stream of tokens.
NoneTwice ==
    nones >= 2 /\ Len(out) >= 2

\* The texts that differ from text only by '\n' in place of ';' or ';' in
\* place of '\n' at some positions.
Variants(text) ==
    LET at == {i \in 1..Len(text) : text[i] \in {"\n", ";"}}
    IN  {[i \in 1..Len(text) |->
            IF i \in M THEN (IF text[i] = ";" THEN "\n" ELSE ";") ELSE text[i]] :
         M \in SUBSET at}

Kinds(ts) == [i \in 1..Len(ts) |-> ts[i].kind]

\* C10: every text that differs from the input only by exchanged '\n' and
\* ';' lexes to the same sequence of kinds as the input did.
TerminatorsInterchangeable ==
    nones > 0 => \A v \in Variants(input) : Kinds(Lex(v)) = Kinds(out)

\* C10 witness: an ended stream of a text with both terminators and a Word
\* after a Semi.
BothTerminatorsLexed ==
    /\ nones > 0
    /\ \E i, j \in 1..Len(input) : input[i] = "\n" /\ input[j] = ";"
    /\ \E i \in 2..Len(out) : IsSemi(i - 1) /\ IsWord(i)

\* A stream of kinds as text: each kind as its text, a newline after each
\* Semi or brace, the tokens joined by a single space.
RECURSIVE Render(_)
Render(kinds) ==
    IF kinds = <<>> THEN <<>>
    ELSE LET piece == KindText(kinds[1]) \o
                        (IF kinds[1].k = "Word" THEN <<>> ELSE <<"\n">>)
         IN  IF Len(kinds) = 1 THEN piece
             ELSE piece \o <<" ">> \o Render(Tail(kinds))

Relex(kinds) == Kinds(Lex(Render(kinds)))

----------------------------------------------------------------------------
\* Properties of single pulls, over the steps of Spec, stated against the
\* input text: lexer is the state before the pull, ret' what it returns.

Blanks == {" ", "\t"}
Terminators == {"\n", ";"}

\* The characters not read yet, the pushed-back one first.
Unread(st) == st.peek \o st.src

\* How many characters of the input have been read and not pushed back.
Consumed(st) == Len(input) - Len(Unread(st))

\* The 1-based line of the character at position p of the input.
LineAt(p) == 1 + Cardinality({i \in 1..(p - 1) : input[i] = "\n"})

\* The first position of text at or after from whose character is not in
\* skip; Len(text) + 1 when there is none.
FirstNotIn(text, from, skip) ==
    LET at == {i \in from..Len(text) : text[i] \notin skip}
    IN  IF at = {} THEN Len(text) + 1
        ELSE CHOOSE i \in at : \A j \in at : i <= j

\* The position in the input of the first unread character that is not a
\* blank; Len(input) + 1 when only blanks are left.
NextNonBlank == FirstNotIn(input, Consumed(lexer) + 1, Blanks)

\* The pull starts by reading a terminator run: the slot is empty and the
\* first unread non-blank character is a line terminator.
AtRun ==
    /\ lexer.next = None
    /\ NextNonBlank <= Len(input)
    /\ input[NextNonBlank] \in Terminators

\* The position after the maximal terminator run that starts at position p.
RunEnd(p) == FirstNotIn(input, p, Terminators)

Rest(p) == SubSeq(input, p, Len(input))

\* C13: the Semi of a terminator run read with an empty buffer after some
\* token carries the line of the first terminator of the run.
RunSemiOnStartLine ==
    [][(AtRun /\ lexer.last # None) =>
            ret' = Some(Token(Semi, LineAt(NextNonBlank)))]_vars

\* The position in the input of the character that decides the pull: the
\* first unread one that is not a blank nor, before any token has been
\* emitted, a line terminator.
Deciding ==
    FirstNotIn(input, Consumed(lexer) + 1,
               IF lexer.last = None THEN Blanks \cup Terminators ELSE Blanks)

\* C14: a Word, a LeftBrace, a RightBrace (emitted directly or out of the
\* lookahead slot) and the Semi put before a closing brace carry the line
\* of the input on which their characters stand.
LinesMatchSource ==
    [][/\ lexer.next # None =>
            /\ input[Consumed(lexer)] = "}"
            /\ ret' = Some(Token(RightBrace, LineAt(Consumed(lexer))))
       /\ (lexer.next = None /\ Deciding <= Len(input)) =>
            LET c == input[Deciding]
                line == LineAt(Deciding)
            IN  /\ c = "{" => ret' = Some(Token(LeftBrace, line))
                /\ (c = "}" /\ lexer.last = Some(Semi)) =>
                        ret' = Some(Token(RightBrace, line))
                /\ (c = "}" /\ lexer.last # Some(Semi)) =>
                        ret' = Some(Token(Semi, line))
                /\ c \notin {"{", "}"} \cup Terminators =>
                        /\ ret' # None
                        /\ ret'[1].kind.k = "Word"
                        /\ ret'[1].kind.text[1] = c
                        /\ ret'[1].line = line
      ]_vars

\* C14 witness: a body closed on its second line, as for "{\n}": the Semi
\* put before the brace and the RightBrace out of the slot are on line 2.
ClosingBraceOnSecondLine ==
    /\ out = <<Token(LeftBrace, 1), Token(Semi, 2), Token(RightBrace, 2)>>
    /\ lexer.next = None

\* C15: '{' read with an empty buffer takes the maximal terminator run that
\* follows it, returns LeftBrace on the line of the '{' and nothing else,
\* and leaves the first character after the run to be read next.
LeftBraceTakesRun ==
    [][(lexer.next = None /\ Deciding <= Len(input) /\ input[Deciding] = "{") =>
            /\ ret' = Some(Token(LeftBrace, LineAt(Deciding)))
            /\ lexer'.next = None
            /\ Unread(lexer') = Rest(RunEnd(Deciding + 1))
            /\ out' = Append(out, ret'[1])
      ]_vars

\* C15 witness: "{\n;a" after its first pull: LeftBrace on line 1, the
\* cursor on line 2 with the 'a' pushed back.
LeftBraceRunTaken ==
    /\ input = <<"{", "\n", ";", "a">>
    /\ out = <<Token(LeftBrace, 1)>>
    /\ lexer.peek = Some("a") /\ lexer.src = <<>> /\ lexer.line = 2

\* C16: a pull that starts at a terminator run takes the whole run; after
\* some token it returns one Semi for it, and before any token it returns
\* what the text after the run starts with, no token standing for the run.
RunYieldsOneSemi ==
    [][AtRun =>
            LET after == RunEnd(NextNonBlank)
            IN  IF lexer.last # None
                THEN /\ ret' # None /\ ret'[1].kind = Semi
                     /\ Unread(lexer') = Rest(after)
                     /\ out' = Append(out, ret'[1])
                ELSE /\ ret' # None
                     /\ ret'[1].kind = Lex(Rest(after))[1].kind
                     /\ Len(out') = 1
      ]_vars

\* C16 witness: ";a;\n" has ended: the leading ';' gave no token, the run
\* ";\n" after the Word gave one Semi.
RunsCollapsed ==
    /\ input = <<";", "a", ";", "\n">>
    /\ nones > 0
    /\ Kinds(out) = <<Word(<<"a">>), Semi>>

\* C17: between pulls the lookahead slot is empty or holds RightBrace; it
\* is filled only by a pull that reads '}' and returns Semi; the pull after
\* returns RightBrace, reads nothing and leaves the slot empty.
LookaheadProtocol ==
    [][/\ lexer'.next \in {None, Some(RightBrace)}
       /\ lexer'.next # None =>
            /\ lexer.next = None
            /\ ret' # None /\ ret'[1].kind = Semi
            /\ Consumed(lexer') > Consumed(lexer)
            /\ input[Consumed(lexer')] = "}"
       /\ lexer.next # None =>
            /\ ret' # None /\ ret'[1].kind = lexer.next[1]
            /\ lexer'.next = None
            /\ lexer'.src = lexer.src /\ lexer'.peek = lexer.peek
            /\ lexer'.line = lexer.line
      ]_vars

\* C17 witness: the slot holds RightBrace after "a }" gave Word and Semi.
SlotHoldsRightBrace ==
    /\ lexer.next = Some(RightBrace)
    /\ Len(out) = 2 /\ IsWord(1) /\ IsSemi(2)

\* The line counter of a cursor state agrees with the input: one more than
\* the newlines read and not pushed back, and the unread characters are the
\* rest of the input.
LineAgrees(st) ==
    /\ Len(Unread(st)) <= Len(input)
    /\ Unread(st) = Rest(Consumed(st) + 1)
    /\ st.line = LineAt(Consumed(st) + 1)

\* LineAgrees in st and in every cursor state that next_char calls lead to
\* from it, each with and without a push_char of the character just read.
RECURSIVE CursorAgrees(_)
CursorAgrees(st) ==
    LET r == next_char(st)
    IN  /\ LineAgrees(st)
        /\ r.c # None =>
            /\ LineAgrees(push_char(r.st, r.c[1]))
            /\ push_char(r.st, r.c[1]).line = st.line
            /\ CursorAgrees(r.st)

\* C18: in every cursor state the lexer passes through, line is 1 plus the
\* number of newlines read and not held in the pushback slot, and next_char
\* followed by push_char of the same character restores line.
CursorLineInvariant ==
    CursorAgrees(lexer)

\* C18 witness: the second newline of "a\na\n" has been read and pushed
\* back: the cursor is on line 2 again.
SecondNewlinePushedBack ==
    /\ input = <<"a", "\n", "a", "\n">>
    /\ lexer.peek = Some("\n")
    /\ lexer.line = 2

----------------------------------------------------------------------------
\* Properties of the environment store, over the steps of EnvSpec: call'
\* is the call a step makes, values the store before it, values' after it.

\* The value the call's expression expands to against the store before it.
Expanded == expand(call'.value[1], values)

ExportedPairs(vals) ==
    {<<n, vals[n].value>> : n \in {m \in DOMAIN vals : vals[m].is_exported}}

\* C12: export with a value leaves the name exported with the expanded
\* value; export without a value sets the flag of an existing variable and
\* keeps its value, or creates the name exported with the empty value; and
\* after every call iter_exported yields, in whatever order the map
\* iterates, exactly the pairs of the exported variables, each once.
ExportAndEnumerate ==
    [][/\ (call'.fn = "export" /\ call'.value # None /\ call'.result = "ok") =>
            /\ call'.name \in DOMAIN values'
            /\ values'[call'.name] = Var(Expanded.value, TRUE)
       /\ (call'.fn = "export" /\ call'.value = None) =>
            /\ call'.name \in DOMAIN values'
            /\ values'[call'.name] =
                 IF call'.name \in DOMAIN values
                 THEN Var(values[call'.name].value, TRUE)
                 ELSE Var(<<>>, TRUE)
       /\ \A o \in Orders(values') :
            LET pairs == iter_exported(values', o)
            IN  /\ {pairs[i] : i \in DOMAIN pairs} = ExportedPairs(values')
                /\ \A i, j \in DOMAIN pairs : i # j => pairs[i] # pairs[j]
      ]_vars

\* C12 witness: export without a value has just been called on a variable
\* that holds a value, while another variable is set and not exported.
ExportedByFlag ==
    /\ call.fn = "export" /\ call.value = None /\ call.name = "A"
    /\ DOMAIN values = {"A", "B"}
    /\ values["A"] = Var(<<"x">>, TRUE)
    /\ ~values["B"].is_exported

\* C19: assign and export return an error exactly when the expansion of
\* the value fails, the store is then as it was before the call, and export
\* without a value returns Ok.
FailsOnlyWhenExpansionFails ==
    [][/\ call'.result = "err" <=> (call'.value # None /\ ~Expanded.ok)
       /\ call'.result = "err" => values' = values
       /\ (call'.fn = "export" /\ call'.value = None) => call'.result = "ok"
      ]_vars

\* C19 witness: an export whose expansion failed, on a store that holds an
\* unexported variable of that name.
ExportFailed ==
    /\ call.fn = "export" /\ call.result = "err"
    /\ call.name \in DOMAIN values
    /\ ~values[call.name].is_exported

\* C20: assign replaces only the value of an existing variable and keeps
\* its flag, creates an absent name unexported, no call changes a variable
\* other than the one it names, and an exported variable stays exported.
ExportedFlagMonotone ==
    [][/\ (call'.fn = "assign" /\ call'.result = "ok") =>
            /\ call'.name \in DOMAIN values'
            /\ values'[call'.name] =
                 Var(Expanded.value,
                     IF call'.name \in DOMAIN values
                     THEN values[call'.name].is_exported ELSE FALSE)
       /\ DOMAIN values' \ {call'.name} = DOMAIN values \ {call'.name}
       /\ \A m \in DOMAIN values \ {call'.name} : values'[m] = values[m]
       /\ \A m \in DOMAIN values :
            values[m].is_exported =>
                (m \in DOMAIN values' /\ values'[m].is_exported)
      ]_vars

\* C20 witness: an exported variable has just been assigned a value that
\* refers to its own value, and is still exported.
ExportedAssignedFromItself ==
    /\ call.fn = "assign" /\ call.name = "A" /\ call.result = "ok"
    /\ call.value = Some(Cat("A", "y"))
    /\ "A" \in DOMAIN values
    /\ values["A"] = Var(<<"x", "y">>, TRUE)

====
